---- MODULE Spec2Model ----
(***************************************************************************)
(* A model of the rlox scanner (src/src/scanner.rs).                       *)
(*                                                                         *)
(* The source text is a sequence of bytes (Rust u8, 0..255).  Cursors are  *)
(* 0-based byte offsets as in the code; the byte at offset i is            *)
(* source[i + 1].  One scanner is a record `self` with the fields of       *)
(* struct Scanner, plus `panicked`, which records that a Rust panic        *)
(* (index or slice out of range, unwrap of Err) has unwound the call.      *)
(***************************************************************************)
EXTENDS Integers, Sequences, FiniteSets, TLC

VARIABLES source, tokens, errors, start, current, line, pc, result, stdin

vars == <<source, tokens, errors, start, current, line, pc, result, stdin>>

----------------------------------------------------------------------------
(* Bounds of the exploration.                                              *)

\* longest input enumerated over Alphabet
MaxLen == 4
\* longest input enumerated over the whitespace bytes alone
MaxWsLen == 4
\* most lines on the standard input of the interactive mode
MaxLines == 3

----------------------------------------------------------------------------
(* Bytes.                                                                  *)

Printable ==
  <<" ", "!", "\"", "#", "$", "%", "&", "'", "(", ")", "*", "+", ",", "-",
    ".", "/", "0", "1", "2", "3", "4", "5", "6", "7", "8", "9", ":", ";",
    "<", "=", ">", "?", "@", "A", "B", "C", "D", "E", "F", "G", "H", "I",
    "J", "K", "L", "M", "N", "O", "P", "Q", "R", "S", "T", "U", "V", "W",
    "X", "Y", "Z", "[", "backslash", "]", "^", "_", "backtick", "a", "b",
    "c", "d", "e", "f", "g", "h", "i", "j", "k", "l", "m", "n", "o", "p",
    "q", "r", "s", "t", "u", "v", "w", "x", "y", "z", "{", "|", "}", "~">>

\* the byte values of the byte literals b'..' of the code
OrdTable ==
  [ch \in {Printable[i] : i \in 1..Len(Printable)} |->
     31 + (CHOOSE i \in 1..Len(Printable) : Printable[i] = ch)]
  @@ ("\n" :> 10) @@ ("\t" :> 9) @@ ("\r" :> 13) @@ ("NUL" :> 0)

Ord(ch) == OrdTable[ch]

\* the bytes of a string literal, given as the sequence of its characters
Bytes(chars) == [i \in 1..Len(chars) |-> Ord(chars[i])]

\* u8::is_ascii_digit
is_ascii_digit(c) == c \in Ord("0")..Ord("9")

\* a letter test that also takes the bytes outside ASCII
is_alphabetic_any_high(c) ==
  c \in Ord("A")..Ord("Z") \/ c \in Ord("a")..Ord("z") \/ c >= 128

\* u8::is_ascii_alphabetic
is_ascii_alphabetic(c) == c \in Ord("A")..Ord("Z") \/ c \in Ord("a")..Ord("z")

\* u8::is_ascii_alphanumeric
is_ascii_alphanumeric(c) == is_ascii_alphabetic(c) \/ is_ascii_digit(c)

\* &source[a..b] for byte offsets a <= b <= len
Slice(src, a, b) == SubSeq(src, a + 1, b)

\* whether &source[a..b] is in range (otherwise the slice panics)
SliceOk(src, a, b) == a <= b /\ b <= Len(src)

----------------------------------------------------------------------------
(* Tokens and diagnostics.                                                 *)

\* a TokenType variant without payload
Nullary(kind) == [kind |-> kind]

\* TokenType::Identifier(String)
Identifier(text) == [kind |-> "Identifier", value |-> text]

\* TokenType::String(String)
String(text) == [kind |-> "String", value |-> text]

\* TokenType::Number(f32)
Number(value) == [kind |-> "Number", value |-> value]

\* Token::new
Token(type_, lexeme, ln) == [type_ |-> type_, lexeme |-> lexeme, line |-> ln]

\* ScannerErrorType::UnexpectedCharacter(u8)
UnexpectedCharacter(c) == [kind |-> "UnexpectedCharacter", c |-> c]

\* ScannerErrorType::UnterminatedString
UnterminatedString == [kind |-> "UnterminatedString"]

\* struct ScannerError
ScannerError(error, ln) == [error |-> error, line |-> ln]

----------------------------------------------------------------------------
(* str::parse::<f32>, on the lexemes made of ASCII digits and '.'.         *)
(* A value is the decimal mant / 10^exp10 in lowest terms of 10; the       *)
(* rounding of that decimal to the nearest f32 is not modelled.  A text    *)
(* holding any other byte is outside what number() can hand over and is    *)
(* reported as Err here.                                                   *)

RECURSIVE DigitsValue(_)
DigitsValue(ds) ==
  IF ds = <<>> THEN 0
  ELSE 10 * DigitsValue(SubSeq(ds, 1, Len(ds) - 1)) + (ds[Len(ds)] - Ord("0"))

RECURSIVE Normalize(_, _)
Normalize(mant, exp10) ==
  IF exp10 > 0 /\ mant % 10 = 0 THEN Normalize(mant \div 10, exp10 - 1)
  ELSE [mant |-> mant, exp10 |-> exp10]

ParseF32(text) ==
  LET dots == {i \in 1..Len(text) : text[i] = Ord(".")}
      digs == {i \in 1..Len(text) : is_ascii_digit(text[i])}
  IN IF digs = {} \/ Cardinality(dots) > 1
          \/ Cardinality(dots) + Cardinality(digs) # Len(text)
     THEN [ok |-> FALSE]
     ELSE LET plain == SelectSeq(text, is_ascii_digit)
              exp10 == IF dots = {} THEN 0
                       ELSE Len(text) - (CHOOSE i \in dots : TRUE)
          IN [ok |-> TRUE, value |-> Normalize(DigitsValue(plain), exp10)]

----------------------------------------------------------------------------
(* The methods of Scanner.                                                 *)

\* Scanner::new
new(src) ==
  [source |-> src, tokens |-> <<>>, errors |-> <<>>,
   start |-> 0, current |-> 0, line |-> 1, panicked |-> FALSE]

is_at_end(self) == self.current >= Len(self.source)

\* advance: the scanner after the call and the byte returned; the index
\* source.as_bytes()[current - 1] panics when the new current exceeds len
advance(self) ==
  LET n == self.current + 1
  IN IF n > Len(self.source)
     THEN [self |-> [self EXCEPT !.current = n, !.panicked = TRUE], c |-> 0]
     ELSE [self |-> [self EXCEPT !.current = n], c |-> self.source[n]]

\* an add_token whose lexeme starts one byte late
add_token_shifted(self, type_) ==
  IF ~SliceOk(self.source, self.start, self.current)
  THEN [self EXCEPT !.panicked = TRUE]
  ELSE [self EXCEPT !.tokens =
          Append(@, Token(type_, Slice(self.source, self.start + 1,
                                       self.current), self.line))]

add_token(self, type_) ==
  IF ~SliceOk(self.source, self.start, self.current)
  THEN [self EXCEPT !.panicked = TRUE]
  ELSE [self EXCEPT !.tokens =
          Append(@, Token(type_, Slice(self.source, self.start, self.current),
                          self.line))]

add_error(self, error) ==
  [self EXCEPT !.errors = Append(@, ScannerError(error, self.line))]

\* a match_ that reports the match and leaves the byte unconsumed
match_no_consume(self, expected) ==
  IF self.current >= Len(self.source) THEN [self |-> self, matched |-> FALSE]
  ELSE [self |-> self, matched |-> self.source[self.current + 1] = expected]

\* match_: the scanner after the call and the bool returned
match_(self, expected) ==
  IF self.current >= Len(self.source) THEN [self |-> self, matched |-> FALSE]
  ELSE IF self.source[self.current + 1] # expected
       THEN [self |-> self, matched |-> FALSE]
       ELSE [self |-> [self EXCEPT !.current = @ + 1], matched |-> TRUE]

peek(self) ==
  IF self.current < Len(self.source) THEN self.source[self.current + 1]
  ELSE Ord("NUL")

peek_next(self) ==
  IF self.current + 1 < Len(self.source) THEN self.source[self.current + 2]
  ELSE Ord("NUL")

\* a string loop that does not count the newlines inside the literal
RECURSIVE string_loop_uncounted(_)
string_loop_uncounted(self) ==
  IF peek(self) # Ord("\"") /\ ~is_at_end(self)
  THEN string_loop_uncounted(advance(self).self)
  ELSE self

\* the while loop of string()
RECURSIVE string_loop(_)
string_loop(self) ==
  IF peek(self) # Ord("\"") /\ ~is_at_end(self)
  THEN LET counted == IF peek(self) = Ord("\n")
                      THEN [self EXCEPT !.line = @ + 1] ELSE self
       IN string_loop(advance(counted).self)
  ELSE self

\* a string() whose payload keeps the two quotes
string_payload_with_quotes(self) ==
  LET looped == string_loop(self)
      checked == IF is_at_end(looped)
                 THEN add_error(looped, UnterminatedString) ELSE looped
      closed == advance(checked).self
  IN IF closed.panicked THEN closed
     ELSE add_token(closed,
            String(Slice(closed.source, closed.start, closed.current)))

string(self) ==
  LET looped == string_loop(self)
      checked == IF is_at_end(looped)
                 THEN add_error(looped, UnterminatedString) ELSE looped
      closed == advance(checked).self
  IN IF closed.panicked THEN closed
     ELSE IF ~SliceOk(closed.source, closed.start + 1, closed.current - 1)
          THEN [closed EXCEPT !.panicked = TRUE]
          ELSE add_token(closed,
                 String(Slice(closed.source, closed.start + 1,
                              closed.current - 1)))

\* a digit loop that also takes every `.`
RECURSIVE digits_loop_with_dots(_)
digits_loop_with_dots(self) ==
  IF is_ascii_digit(peek(self)) \/ peek(self) = Ord(".")
  THEN digits_loop_with_dots(advance(self).self) ELSE self

\* the loops `while self.peek().is_ascii_digit() { self.advance(); }`
RECURSIVE digits_loop(_)
digits_loop(self) ==
  IF is_ascii_digit(peek(self)) THEN digits_loop(advance(self).self) ELSE self

\* a number() that takes a `.` without looking at the byte after it
number_any_dot(self) ==
  LET whole == digits_loop(self)
      fract == IF peek(whole) = Ord(".")
               THEN digits_loop(advance(whole).self) ELSE whole
      parsed == ParseF32(Slice(fract.source, fract.start, fract.current))
  IN IF ~parsed.ok THEN [fract EXCEPT !.panicked = TRUE]
     ELSE add_token(fract, Number(parsed.value))

number(self) ==
  LET whole == digits_loop(self)
      fract == IF peek(whole) = Ord(".") /\ is_ascii_digit(peek_next(whole))
               THEN digits_loop(advance(whole).self) ELSE whole
      parsed == ParseF32(Slice(fract.source, fract.start, fract.current))
  IN IF ~parsed.ok THEN [fract EXCEPT !.panicked = TRUE]
     ELSE add_token(fract, Number(parsed.value))

\* the keyword match of identifier()
Keywords ==
  { <<Bytes(<<"a", "n", "d">>), "And">>,
    <<Bytes(<<"c", "l", "a", "s", "s">>), "Class">>,
    <<Bytes(<<"e", "l", "s", "e">>), "Else">>,
    <<Bytes(<<"f", "a", "l", "s", "e">>), "False">>,
    <<Bytes(<<"f", "o", "r">>), "For">>,
    <<Bytes(<<"f", "u", "n">>), "Fun">>,
    <<Bytes(<<"i", "f">>), "If">>,
    <<Bytes(<<"n", "i", "l">>), "Nil">>,
    <<Bytes(<<"o", "r">>), "Or">>,
    <<Bytes(<<"p", "r", "i", "n", "t">>), "Print">>,
    <<Bytes(<<"r", "e", "t", "u", "r", "n">>), "Return">>,
    <<Bytes(<<"s", "u", "p", "e", "r">>), "Super">>,
    <<Bytes(<<"t", "h", "i", "s">>), "This">>,
    <<Bytes(<<"t", "r", "u", "e">>), "True">>,
    <<Bytes(<<"v", "a", "r">>), "Var">>,
    <<Bytes(<<"w", "h", "i", "l", "e">>), "While">> }

\* a keyword match on a prefix of the text
keyword_type_prefix(text) ==
  LET hits == {k \in Keywords : Len(k[1]) <= Len(text)
                                  /\ SubSeq(text, 1, Len(k[1])) = k[1]}
  IN IF hits # {} THEN Nullary((CHOOSE k \in hits : TRUE)[2])
     ELSE Identifier(text)

keyword_type(text) ==
  IF \E k \in Keywords : k[1] = text
  THEN Nullary((CHOOSE k \in Keywords : k[1] = text)[2])
  ELSE Identifier(text)

\* the while loop of identifier()
RECURSIVE identifier_loop(_)
identifier_loop(self) ==
  IF is_ascii_alphanumeric(peek(self)) \/ peek(self) = Ord("_")
  THEN identifier_loop(advance(self).self) ELSE self

identifier(self) ==
  LET looped == identifier_loop(self)
  IN add_token(looped,
       keyword_type(Slice(looped.source, looped.start, looped.current)))

\* the arms for '!', '=', '<', '>': two-character variant on a following '='
one_or_two(self, two, one) ==
  LET m == match_(self, Ord("="))
  IN IF m.matched THEN add_token(m.self, Nullary(two))
     ELSE add_token(m.self, Nullary(one))

\* a comment loop that also takes the newline ending the comment
RECURSIVE comment_loop_past_newline(_)
comment_loop_past_newline(self) ==
  IF ~is_at_end(self)
  THEN IF peek(self) = Ord("\n") THEN advance(self).self
       ELSE comment_loop_past_newline(advance(self).self)
  ELSE self

\* the while loop of the line comment
RECURSIVE comment_loop(_)
comment_loop(self) ==
  IF peek(self) # Ord("\n") /\ ~is_at_end(self)
  THEN comment_loop(advance(self).self) ELSE self

\* the arm for '/'
slash(self) ==
  LET m == match_(self, Ord("/"))
  IN IF m.matched THEN comment_loop(m.self)
     ELSE add_token(m.self, Nullary("Slash"))

\* a blank arm that counts a line
blank_counts_line(self) == [self EXCEPT !.line = @ + 1]

\* the arm for ' ', '\r', '\t'
blank(self) == self

\* a newline arm that does not count the line
newline_uncounted(self) == self

\* the arm for '\n'
newline(self) == [self EXCEPT !.line = @ + 1]

\* a dispatcher that skips a byte it has no arm for
unexpected_silent(self, c) == self

\* the last arm
unexpected(self, c) == add_error(self, UnexpectedCharacter(c))

scan_token(self) ==
  LET a == advance(self)
      s == a.self
      c == a.c
  IN IF s.panicked THEN s
     ELSE CASE c = Ord("(") -> add_token(s, Nullary("LeftParen"))
            [] c = Ord(")") -> add_token(s, Nullary("RightParen"))
            [] c = Ord("{") -> add_token(s, Nullary("LeftBrace"))
            [] c = Ord("}") -> add_token(s, Nullary("RightBrace"))
            [] c = Ord(",") -> add_token(s, Nullary("Comma"))
            [] c = Ord(".") -> add_token(s, Nullary("Dot"))
            [] c = Ord("-") -> add_token(s, Nullary("Minus"))
            [] c = Ord("+") -> add_token(s, Nullary("Plus"))
            [] c = Ord(";") -> add_token(s, Nullary("Semicolon"))
            [] c = Ord("*") -> add_token(s, Nullary("Star"))
            [] c = Ord("!") -> one_or_two(s, "BangEqual", "Bang")
            [] c = Ord("=") -> one_or_two(s, "EqualEqual", "Equal")
            [] c = Ord("<") -> one_or_two(s, "LessEqual", "Less")
            [] c = Ord(">") -> one_or_two(s, "GreaterEqual", "Greater")
            [] c = Ord("/") -> slash(s)
            [] c \in {Ord(" "), Ord("\r"), Ord("\t")} -> blank(s)
            [] c = Ord("\n") -> newline(s)
            [] c = Ord("\"") -> string(s)
            [] OTHER ->
                 IF is_ascii_digit(c) THEN number(s)
                 ELSE IF is_ascii_alphabetic(c) \/ c = Ord("_")
                      THEN identifier(s)
                      ELSE unexpected(s, c)

\* a return that forgets the end-of-input token
scan_tokens_result_no_eof(self) ==
  IF self.errors = <<>>
  THEN [kind |-> "Ok", tokens |-> self.tokens]
  ELSE [kind |-> "Err", errors |-> self.errors]

\* the tail of scan_tokens, after the loop: the value returned
scan_tokens_result(self) ==
  IF self.errors = <<>>
  THEN [kind |-> "Ok",
        tokens |-> Append(self.tokens,
                          Token(Nullary("Eof"), <<>>, self.line))]
  ELSE [kind |-> "Err", errors |-> self.errors]

----------------------------------------------------------------------------
(* The inputs.                                                             *)

\* the bytes the enumerated inputs are made of
Alphabet ==
  { Ord("\""), Ord("\n"), Ord(" "), Ord("@"), Ord("!"), Ord("="),
    Ord("/"), Ord("."), Ord("1"), Ord("o") }

Whitespace == { Ord(" "), Ord("\r"), Ord("\t"), Ord("\n") }

SeqsUpTo(S, n) == UNION { [1..k -> S] : k \in 0..n }

\* the inputs of spec.md section 8 and inputs around them
SampleInputs ==
  { Bytes(<<"\"", "a", "b", "c">>),
    Bytes(<<"\"", "a", "\n", "b", "\n">>),
    Bytes(<<"@", " ", "#", " ", "5">>),
    Bytes(<<"!", "=">>),
    Bytes(<<"<", "=", ">", "=", "<", ">">>),
    Bytes(<<"=", "=", "=", "!", "!", "=">>),
    Bytes(<<"1", "2", "3", ".">>),
    Bytes(<<"1", "2", ".", "5", "0", ".", "7">>),
    Bytes(<<"0", "0", "7", ".", ".", "5">>),
    Bytes(<<"c", "l", "a", "s", "s", "i", "c">>),
    Bytes(<<"c", "l", "a", "s", "s">>),
    Bytes(<<"c", "l", "a", "s">>),
    Bytes(<<"C", "l", "a", "s", "s">>),
    Bytes(<<"_", "o", "r", "9", " ", "o", "r", "_">>),
    Bytes(<<"/", "/", " ", "h", "i", "\n", "4", "2">>),
    Bytes(<<"/", "/", "@", "\"">>),
    Bytes(<<"1", "/", "2", "/", "/", "3">>),
    Bytes(<<"v", "a", "r", " ", "x", " ", "=", " ", "1", "0", ";">>),
    Bytes(<<"(", ")", "{", "}", ",", ".", "-", "+", ";", "*">>),
    Bytes(<<"\"", "a", "\n", "b", "\"", " ", "x">>),
    Bytes(<<"\t", "\r", "\n", " ", "\n">>),
    Bytes(<<"1", "\n", "\t", "\r">>),
    <<195, 169>>,
    <<34, 195, 169, 34>>,
    <<47, 47, 195, 169, 10, 195, 169>>,
    <<97, 195, 169, 98>>,
    <<49, 195, 169, 50>>,
    Bytes(<<"\"", "a", "\"", "\"", "\n", "\n", "\"", "1">>) }
  \cup { k[1] : k \in Keywords }
  \cup { k[1] \o Bytes(<<"s">>) : k \in Keywords }

Inputs ==
  SeqsUpTo(Alphabet, MaxLen) \cup SeqsUpTo(Whitespace, MaxWsLen)
    \cup SampleInputs

----------------------------------------------------------------------------
(* The state machine: one call of scan_tokens on a fresh scanner.          *)

\* the scanner the variables hold
Self ==
  [source |-> source, tokens |-> tokens, errors |-> errors,
   start |-> start, current |-> current, line |-> line, panicked |-> FALSE]

NoResult == [kind |-> "None"]

Init ==
  /\ source \in Inputs
  /\ tokens = new(source).tokens
  /\ errors = new(source).errors
  /\ start = new(source).start
  /\ current = new(source).current
  /\ line = new(source).line
  /\ pc = "loop"
  /\ result = NoResult
  /\ stdin = <<>>

\* a loop body that does not move start to the cursor
ScanToken_keeps_start ==
  /\ pc = "loop"
  /\ ~is_at_end(Self)
  /\ LET s == scan_token(Self)
     IN /\ tokens' = s.tokens
        /\ errors' = s.errors
        /\ start' = s.start
        /\ current' = s.current
        /\ line' = s.line
        /\ pc' = IF s.panicked THEN "panicked" ELSE "loop"
  /\ UNCHANGED <<source, result, stdin>>

\* one iteration of the while loop of scan_tokens
ScanToken ==
  /\ pc = "loop"
  /\ ~is_at_end(Self)
  /\ LET s == scan_token([Self EXCEPT !.start = current])
     IN /\ tokens' = s.tokens
        /\ errors' = s.errors
        /\ start' = s.start
        /\ current' = s.current
        /\ line' = s.line
        /\ pc' = IF s.panicked THEN "panicked" ELSE "loop"
  /\ UNCHANGED <<source, result, stdin>>

\* the exit of the loop and the return of scan_tokens
Return ==
  /\ pc = "loop"
  /\ is_at_end(Self)
  /\ result' = scan_tokens_result(Self)
  /\ tokens' = IF result'.kind = "Ok" THEN result'.tokens ELSE tokens
  /\ pc' = "returned"
  /\ UNCHANGED <<source, errors, start, current, line, stdin>>

Next == ScanToken \/ Return

Spec == Init /\ [][Next]_vars

----------------------------------------------------------------------------
(* The interactive mode of main.rs: run_repl reads the standard input line *)
(* by line and calls run, which scans the line with a new scanner.  stdin  *)
(* holds the lines not yet read, each with its line terminator as          *)
(* read_line returns it; only the last line may lack one.  A panic under   *)
(* run unwinds through run_repl and main: pc = "panicked" is the end of    *)
(* the process.                                                            *)

\* the lines the standard input is made of
ReplLines ==
  { Bytes(<<"1", "\n">>),
    Bytes(<<"@", "\n">>),
    Bytes(<<"\"", "a", "\n">>),
    Bytes(<<"\"", "a", "\"", "\n">>),
    Bytes(<<"\n">>),
    Bytes(<<"o", "r", " ", "x">>) }

StdinInputs ==
  { ls \in SeqsUpTo(ReplLines, MaxLines) :
      \A i \in 1..(Len(ls) - 1) : ls[i][Len(ls[i])] = Ord("\n") }

InitRepl ==
  /\ stdin \in StdinInputs
  /\ source = <<>>
  /\ tokens = <<>>
  /\ errors = <<>>
  /\ start = 0
  /\ current = 0
  /\ line = 1
  /\ pc = "prompt"
  /\ result = NoResult

\* run_repl reads a line and run makes a scanner of it
ReplReadLine ==
  /\ pc = "prompt"
  /\ stdin # <<>>
  /\ stdin' = Tail(stdin)
  /\ source' = Head(stdin)
  /\ tokens' = new(source').tokens
  /\ errors' = new(source').errors
  /\ start' = new(source').start
  /\ current' = new(source').current
  /\ line' = new(source').line
  /\ result' = NoResult
  /\ pc' = "loop"

\* read_line returns 0 bytes: run_repl returns Ok(())
ReplEndOfInput ==
  /\ pc = "prompt"
  /\ stdin = <<>>
  /\ pc' = "exited"
  /\ UNCHANGED <<source, tokens, errors, start, current, line, result, stdin>>

\* run prints the tokens or the diagnostics; run_repl drops what run
\* returns and loops
ReplRunDone ==
  /\ pc = "returned"
  /\ pc' = "prompt"
  /\ UNCHANGED <<source, tokens, errors, start, current, line, result, stdin>>

NextRepl ==
  ReplReadLine \/ ReplEndOfInput \/ ScanToken \/ Return \/ ReplRunDone

ReplSpec == InitRepl /\ [][NextRepl]_vars

----------------------------------------------------------------------------
(* Vocabulary of the properties, stated on the source text alone.          *)

\* the byte the next call of scan_token dispatches on
Dispatched == source[current + 1]

\* a step of the main loop is about to run
AtDispatch == pc = "loop" /\ current < Len(source)

\* 1 + the number of newlines among the first n bytes of the source
LineAfter(n) == 1 + Cardinality({i \in 1..n : source[i] = 10})

\* the bytes the dispatcher has an arm for other than the last one
IsPunctuation(c) ==
  c \in { Ord("("), Ord(")"), Ord("{"), Ord("}"), Ord(","), Ord("."),
          Ord("-"), Ord("+"), Ord(";"), Ord("*") }
IsOperatorStart(c) ==
  c \in { Ord("!"), Ord("="), Ord("<"), Ord(">"), Ord("/") }
IsBlank(c) == c \in { 32, 13, 9, 10 }
IsLetterOrUnderscore(c) == c \in 65..90 \/ c \in 97..122 \/ c = 95
IsDigit(c) == c \in 48..57
IsStray(c) ==
  ~(IsPunctuation(c) \/ IsOperatorStart(c) \/ IsBlank(c) \/ c = 34
      \/ IsDigit(c) \/ IsLetterOrUnderscore(c))

HasUnterminated ==
  \E i \in 1..Len(errors) : errors[i].error.kind = "UnterminatedString"

----------------------------------------------------------------------------
(* C1: an input whose string literal is still open at end of input makes   *)
(* scan_tokens complete and return Err holding an unterminated-string      *)
(* diagnostic stamped with the line reached at end of input, and no String *)
(* token is emitted for that literal.                                      *)
C1_UnterminatedStringIsReported ==
  HasUnterminated =>
    /\ pc # "panicked"
    /\ errors[Len(errors)] =
         ScannerError(UnterminatedString, LineAfter(Len(source)))
    /\ \A i \in 1..Len(tokens) : tokens[i].type_.kind = "String" =>
         tokens[i].lexeme[Len(tokens[i].lexeme)] = 34
    /\ pc = "returned" => result = [kind |-> "Err", errors |-> errors]

(* C2: scan_tokens returns Ok(tokens) exactly when no diagnostic was       *)
(* recorded, and otherwise returns Err with every recorded diagnostic in   *)
(* detection order; once the loop is over there is one of the two.         *)
C2_OkExactlyWhenNoDiagnostic ==
  pc # "loop" =>
    IF errors = <<>>
    THEN result = [kind |-> "Ok", tokens |-> tokens]
    ELSE result = [kind |-> "Err", errors |-> errors]

(* C3: scan_tokens terminates with a result: every iteration of the main   *)
(* loop has strictly increased current (start holds the value current had  *)
(* when the last iteration began), the loop is left only once current has  *)
(* consumed the input, and the scan is either still in its loop, where it  *)
(* has a next step, or has returned a result.                              *)
C3_TerminatesWithResult ==
  /\ current = 0 \/ start < current
  /\ pc = "returned" => current >= Len(source)
  /\ pc = "loop" \/ (pc = "returned" /\ result # NoResult)

(* C4: a dispatched byte that has no arm of its own records exactly one    *)
(* unexpected-character diagnostic carrying that byte and the current      *)
(* line, emits no token, and the loop goes on with the next byte; no other *)
(* dispatch records an unexpected-character diagnostic; and a scan that    *)
(* recorded diagnostics returns exactly them, so `@ # 5` fails with the    *)
(* two diagnostics for `@` and `#`.                                        *)
C4_StrayStep ==
  AtDispatch =>
    IF IsStray(Dispatched)
    THEN /\ errors' = Append(errors,
              ScannerError(UnexpectedCharacter(Dispatched), line))
         /\ tokens' = tokens
         /\ line' = line
         /\ current' = current + 1
         /\ pc' = "loop"
    ELSE \A i \in 1..Len(errors') :
           errors'[i].error.kind = "UnexpectedCharacter" =>
             i <= Len(errors) /\ errors'[i] = errors[i]

C4_UnexpectedCharacters ==
  /\ [][C4_StrayStep]_vars
  /\ [](pc = "returned" /\ errors # <<>> =>
          result = [kind |-> "Err", errors |-> errors])
  /\ [](pc = "returned" /\ source = Bytes(<<"@", " ", "#", " ", "5">>) =>
          result = [kind |-> "Err", errors |->
            << ScannerError(UnexpectedCharacter(64), 1),
               ScannerError(UnexpectedCharacter(35), 1) >>])

\* `@ # 5` has been scanned and has failed with two diagnostics
C4_Witness ==
  /\ pc = "returned"
  /\ source = Bytes(<<"@", " ", "#", " ", "5">>)
  /\ result.kind = "Err"
  /\ Len(result.errors) = 2

(* C5: a successful scan returns a non-empty token list whose last element *)
(* is the end-of-input token with empty lexeme and the final value of the  *)
(* line counter, and no other element is an end-of-input token.            *)
C5_EofLastAndOnce ==
  result.kind = "Ok" =>
    LET n == Len(result.tokens)
    IN /\ n >= 1
       /\ result.tokens[n] = [type_ |-> [kind |-> "Eof"], lexeme |-> <<>>,
                              line |-> line]
       /\ \A i \in 1..(n - 1) : result.tokens[i].type_.kind # "Eof"

\* a successful scan of several tokens over several lines
C5_Witness ==
  /\ result.kind = "Ok"
  /\ Len(result.tokens) >= 3
  /\ line >= 2

(* C6: maximal munch.  When the dispatched byte is one of `!`, `=`, `<`,   *)
(* `>` and the next byte is `=`, exactly one two-character token covering  *)
(* both bytes is emitted and the cursor passes the `=`; otherwise exactly  *)
(* one one-character token is emitted and the next byte is left            *)
(* unconsumed.  `!=` yields one BangEqual, `!` alone one Bang.             *)
OperatorKinds(c) ==
  CASE c = 33 -> <<"Bang", "BangEqual">>
    [] c = 61 -> <<"Equal", "EqualEqual">>
    [] c = 60 -> <<"Less", "LessEqual">>
    [] c = 62 -> <<"Greater", "GreaterEqual">>

C6_OperatorStep ==
  AtDispatch /\ Dispatched \in {33, 61, 60, 62} =>
    LET c == Dispatched
        followed == current + 1 < Len(source) /\ source[current + 2] = 61
    IN /\ errors' = errors /\ line' = line /\ pc' = "loop"
       /\ IF followed
          THEN /\ current' = current + 2
               /\ tokens' = Append(tokens,
                    [type_ |-> [kind |-> OperatorKinds(c)[2]],
                     lexeme |-> <<c, 61>>, line |-> line])
          ELSE /\ current' = current + 1
               /\ tokens' = Append(tokens,
                    [type_ |-> [kind |-> OperatorKinds(c)[1]],
                     lexeme |-> <<c>>, line |-> line])

C6_MaximalMunch ==
  /\ [][C6_OperatorStep]_vars
  /\ [](pc = "returned" /\ source = <<33, 61>> =>
          result.kind = "Ok" /\ Len(result.tokens) = 2
            /\ result.tokens[1].type_.kind = "BangEqual")
  /\ [](pc = "returned" /\ source = <<33>> =>
          result.kind = "Ok" /\ Len(result.tokens) = 2
            /\ result.tokens[1].type_.kind = "Bang")

\* `<=>=<>` has been scanned: two-character and one-character operators
C6_Witness ==
  /\ pc = "returned"
  /\ source = <<60, 61, 62, 61, 60, 62>>
  /\ result.kind = "Ok"
  /\ Len(result.tokens) = 5
  /\ result.tokens[1].type_.kind = "LessEqual"
  /\ result.tokens[3].type_.kind = "Less"

(* C7: number boundary.  A number lexeme is the bytes from the dispatched  *)
(* digit to the cursor; a `.` is inside it only when the byte after the    *)
(* `.` is an ASCII digit, a `.` after the integer digits that is followed  *)
(* by a non-digit or by end of input is left unconsumed, and a dispatched  *)
(* `.` is a Dot token.  `123.` scans as Number(123), Dot, end-of-input.    *)
DigitRunEnd(from) ==
  CHOOSE k \in from..Len(source) :
    /\ \A i \in from..k : IsDigit(source[i])
    /\ k = Len(source) \/ ~IsDigit(source[k + 1])

C7_NumberStep ==
  AtDispatch /\ IsDigit(Dispatched) =>
    LET n == current'
        k == DigitRunEnd(current + 1)
    IN /\ pc' = "loop" /\ errors' = errors /\ line' = line
       /\ n > current /\ n <= Len(source)
       /\ Len(tokens') = Len(tokens) + 1
       /\ SubSeq(tokens', 1, Len(tokens)) = tokens
       /\ tokens'[Len(tokens')].type_.kind = "Number"
       /\ tokens'[Len(tokens')].lexeme = SubSeq(source, current + 1, n)
       /\ tokens'[Len(tokens')].line = line
       /\ \A i \in (current + 1)..n :
            source[i] = 46 => i < n /\ IsDigit(source[i + 1])
       /\ (k < Len(source) /\ source[k + 1] = 46
             /\ ~(k + 1 < Len(source) /\ IsDigit(source[k + 2]))) => n = k

C7_DotStep ==
  AtDispatch /\ Dispatched = 46 =>
    /\ current' = current + 1
    /\ tokens' = Append(tokens,
         [type_ |-> [kind |-> "Dot"], lexeme |-> <<46>>, line |-> line])

C7_NumberBoundary ==
  /\ [][C7_NumberStep /\ C7_DotStep]_vars
  /\ [](pc = "returned" /\ source = <<49, 50, 51, 46>> =>
          result = [kind |-> "Ok", tokens |->
            << [type_ |-> [kind |-> "Number",
                           value |-> [mant |-> 123, exp10 |-> 0]],
                lexeme |-> <<49, 50, 51>>, line |-> 1],
               [type_ |-> [kind |-> "Dot"], lexeme |-> <<46>>, line |-> 1],
               [type_ |-> [kind |-> "Eof"], lexeme |-> <<>>, line |-> 1] >>])

\* `123.` has been scanned
C7_Witness ==
  /\ pc = "returned"
  /\ source = <<49, 50, 51, 46>>
  /\ result.kind = "Ok"
  /\ Len(result.tokens) = 3

(* C8: keyword resolution is on the whole lexeme.  Identifier mode         *)
(* consumes the maximal run of ASCII letters, digits and underscores and   *)
(* emits a keyword token exactly when the whole run is one of the 16       *)
(* reserved words; any other run, `classic` included, is one Identifier    *)
(* token whose payload is the run.                                         *)
ReservedWords ==
  << <<"And", <<"a", "n", "d">> >>,
     <<"Class", <<"c", "l", "a", "s", "s">> >>,
     <<"Else", <<"e", "l", "s", "e">> >>,
     <<"False", <<"f", "a", "l", "s", "e">> >>,
     <<"For", <<"f", "o", "r">> >>,
     <<"Fun", <<"f", "u", "n">> >>,
     <<"If", <<"i", "f">> >>,
     <<"Nil", <<"n", "i", "l">> >>,
     <<"Or", <<"o", "r">> >>,
     <<"Print", <<"p", "r", "i", "n", "t">> >>,
     <<"Return", <<"r", "e", "t", "u", "r", "n">> >>,
     <<"Super", <<"s", "u", "p", "e", "r">> >>,
     <<"This", <<"t", "h", "i", "s">> >>,
     <<"True", <<"t", "r", "u", "e">> >>,
     <<"Var", <<"v", "a", "r">> >>,
     <<"While", <<"w", "h", "i", "l", "e">> >> >>

ReservedBytes == [i \in 1..Len(ReservedWords) |-> Bytes(ReservedWords[i][2])]

IsIdentByte(c) == IsLetterOrUnderscore(c) \/ IsDigit(c)

IdentRunEnd(from) ==
  CHOOSE k \in from..Len(source) :
    /\ \A i \in from..k : IsIdentByte(source[i])
    /\ k = Len(source) \/ ~IsIdentByte(source[k + 1])

C8_IdentifierStep ==
  AtDispatch /\ IsLetterOrUnderscore(Dispatched) =>
    LET n == IdentRunEnd(current + 1)
        run == SubSeq(source, current + 1, n)
        hits == {i \in 1..Len(ReservedWords) : ReservedBytes[i] = run}
        type_ == IF hits = {}
                 THEN [kind |-> "Identifier", value |-> run]
                 ELSE [kind |-> ReservedWords[CHOOSE i \in hits : TRUE][1]]
    IN /\ pc' = "loop" /\ errors' = errors /\ line' = line
       /\ current' = n
       /\ tokens' = Append(tokens,
            [type_ |-> type_, lexeme |-> run, line |-> line])

C8_KeywordOnWholeLexeme ==
  /\ [][C8_IdentifierStep]_vars
  /\ [](Len(ReservedWords) = 16)
  /\ [](pc = "returned"
          /\ source = Bytes(<<"c", "l", "a", "s", "s", "i", "c">>) =>
          result = [kind |-> "Ok", tokens |->
            << [type_ |-> [kind |-> "Identifier", value |-> source],
                lexeme |-> source, line |-> 1],
               [type_ |-> [kind |-> "Eof"], lexeme |-> <<>>, line |-> 1] >>])

\* `classic` has been scanned to one token and the end-of-input token
C8_Witness ==
  /\ pc = "returned"
  /\ source = Bytes(<<"c", "l", "a", "s", "s", "i", "c">>)
  /\ result.kind = "Ok"
  /\ Len(result.tokens) = 2

(* C9: comment elision.  After `//` the bytes up to, not including, the    *)
(* next newline, or up to end of input, are consumed with no token and no  *)
(* diagnostic; the newline is then dispatched and increments the line      *)
(* counter; a `/` not followed by `/` is a Slash token.  `// hi\n42`       *)
(* yields Number(42) on line 2 as the only token before end-of-input.      *)
C9_SlashStep ==
  AtDispatch /\ Dispatched = 47 =>
    /\ pc' = "loop" /\ errors' = errors /\ line' = line
    /\ IF current + 1 < Len(source) /\ source[current + 2] = 47
       THEN LET nls == {i \in (current + 3)..Len(source) : source[i] = 10}
                stop == IF nls = {} THEN Len(source)
                        ELSE (CHOOSE i \in nls : \A j \in nls : i <= j) - 1
            IN current' = stop /\ tokens' = tokens
       ELSE /\ current' = current + 1
            /\ tokens' = Append(tokens,
                 [type_ |-> [kind |-> "Slash"], lexeme |-> <<47>>,
                  line |-> line])

C9_NewlineStep ==
  AtDispatch /\ Dispatched = 10 =>
    /\ line' = line + 1
    /\ current' = current + 1
    /\ tokens' = tokens /\ errors' = errors /\ pc' = "loop"

C9_CommentElision ==
  /\ [][C9_SlashStep /\ C9_NewlineStep]_vars
  /\ [](pc = "returned"
          /\ source = Bytes(<<"/", "/", " ", "h", "i", "\n", "4", "2">>) =>
          result = [kind |-> "Ok", tokens |->
            << [type_ |-> [kind |-> "Number",
                           value |-> [mant |-> 42, exp10 |-> 0]],
                lexeme |-> <<52, 50>>, line |-> 2],
               [type_ |-> [kind |-> "Eof"], lexeme |-> <<>>, line |-> 2] >>])

\* `// hi\n42` has been scanned
C9_Witness ==
  /\ pc = "returned"
  /\ source = Bytes(<<"/", "/", " ", "h", "i", "\n", "4", "2">>)
  /\ result.kind = "Ok"
  /\ line = 2

(* C10: an input made only of spaces, tabs, carriage returns and newlines, *)
(* the empty input included, scans successfully to exactly one token, the  *)
(* end-of-input token, whose line is 1 plus the number of newlines.        *)
C10_BlankInput ==
  (\A i \in 1..Len(source) : source[i] \in {32, 9, 13, 10}) =>
    /\ pc \in {"loop", "returned"}
    /\ errors = <<>>
    /\ pc = "returned" =>
         result = [kind |-> "Ok", tokens |->
           << [type_ |-> [kind |-> "Eof"], lexeme |-> <<>>,
               line |-> LineAfter(Len(source))] >>]

\* a blank input with a tab, a carriage return and newlines has been scanned
C10_Witness ==
  /\ pc = "returned"
  /\ source = <<9, 13, 10, 32, 10>>
  /\ result.kind = "Ok"
  /\ line = 3

----------------------------------------------------------------------------
(* C11: lexeme round-trip.  An iteration of the main loop appends at most  *)
(* one token, and the lexeme of that token is the source text from start   *)
(* (the cursor at the beginning of the iteration) to current as it stands  *)
(* when the token is emitted, which is where the iteration leaves it; the  *)
(* lexeme of a punctuation or operator token is exactly the one or two     *)
(* source characters of that token.                                        *)
FixedLexemes ==
  { <<"LeftParen", <<"(">> >>, <<"RightParen", <<")">> >>,
    <<"LeftBrace", <<"{">> >>, <<"RightBrace", <<"}">> >>,
    <<"Comma", <<",">> >>, <<"Dot", <<".">> >>, <<"Minus", <<"-">> >>,
    <<"Plus", <<"+">> >>, <<"Semicolon", <<";">> >>, <<"Star", <<"*">> >>,
    <<"Slash", <<"/">> >>,
    <<"Bang", <<"!">> >>, <<"BangEqual", <<"!", "=">> >>,
    <<"Equal", <<"=">> >>, <<"EqualEqual", <<"=", "=">> >>,
    <<"Less", <<"<">> >>, <<"LessEqual", <<"<", "=">> >>,
    <<"Greater", <<">">> >>, <<"GreaterEqual", <<">", "=">> >> }

C11_EmitStep ==
  AtDispatch =>
    \/ tokens' = tokens
    \/ /\ Len(tokens') = Len(tokens) + 1
       /\ SubSeq(tokens', 1, Len(tokens)) = tokens
       /\ start' = current
       /\ tokens'[Len(tokens')].lexeme = SubSeq(source, start' + 1, current')
       /\ tokens'[Len(tokens')].type_.kind # "Eof"

C11_LexemeRoundTrip ==
  /\ [][C11_EmitStep]_vars
  /\ [](\A i \in 1..Len(tokens) : \A f \in FixedLexemes :
          tokens[i].type_.kind = f[1] =>
            /\ tokens[i].lexeme = Bytes(f[2])
            /\ Len(tokens[i].lexeme) \in {1, 2})

\* `var x = 10;` has been scanned: keyword, identifier, operator, number
\* and punctuation lexemes
C11_Witness ==
  /\ pc = "returned"
  /\ source = Bytes(<<"v", "a", "r", " ", "x", " ", "=", " ", "1", "0", ";">>)
  /\ result.kind = "Ok"
  /\ [i \in 1..5 |-> result.tokens[i].lexeme] =
       << Bytes(<<"v", "a", "r">>), Bytes(<<"x">>), Bytes(<<"=">>),
          Bytes(<<"1", "0">>), Bytes(<<";">>) >>

----------------------------------------------------------------------------
(* C12: in interactive mode every line is scanned by a fresh scanner       *)
(* (cursors 0, line 1, no tokens, no diagnostics), the loop goes on        *)
(* whatever the line holds, lexical errors included, and only the end of   *)
(* the input ends the loop.                                                *)
C12_ReplSurvivesEveryLine ==
  /\ pc = "loop" /\ current = 0 =>
       start = 0 /\ line = 1 /\ tokens = <<>> /\ errors = <<>>
  /\ pc \in {"prompt", "loop", "returned", "exited"}
  /\ pc = "exited" => stdin = <<>>

----------------------------------------------------------------------------
(* C13: bytes outside the 7-bit ASCII range are never classified as        *)
(* letters or digits and are treated as unexpected characters: any such    *)
(* byte in the input results in an unexpected-character diagnostic for it, *)
(* and it is never part of an identifier or number lexeme.                 *)
IsNonAscii(c) == c >= 128

NoNonAsciiInWordsAndNumbers ==
  \A i \in 1..Len(tokens) :
    tokens[i].type_.kind # "String" =>
      \A j \in 1..Len(tokens[i].lexeme) : ~IsNonAscii(tokens[i].lexeme[j])

C13_EveryNonAsciiByteDiagnosed ==
  /\ NoNonAsciiInWordsAndNumbers
  /\ pc = "returned" =>
       \A i \in 1..Len(source) :
         IsNonAscii(source[i]) =>
           \E j \in 1..Len(errors) :
             errors[j].error = UnexpectedCharacter(source[i])

(* C13, amended: a byte outside the 7-bit ASCII range is never classified  *)
(* as a letter or a digit.  When such a byte reaches the dispatcher, that  *)
(* is when it lies outside every string literal and line comment, exactly  *)
(* one unexpected-character diagnostic is recorded for it and no token is  *)
(* emitted; it is never part of an identifier, keyword or number lexeme.   *)
(* A string literal or a line comment consumes such bytes like any other   *)
(* byte and records no unexpected-character diagnostic.                    *)
C13_NonAsciiStep ==
  AtDispatch =>
    /\ IsNonAscii(Dispatched) =>
         /\ errors' = Append(errors,
              ScannerError(UnexpectedCharacter(Dispatched), line))
         /\ tokens' = tokens
         /\ current' = current + 1
    /\ (Dispatched = 34 \/ (Dispatched = 47 /\ current + 1 < Len(source)
                              /\ source[current + 2] = 47)) =>
         \A j \in 1..Len(errors') :
           errors'[j].error.kind = "UnexpectedCharacter" =>
             j <= Len(errors) /\ errors'[j] = errors[j]

C13_NonAsciiAtDispatcher ==
  /\ [][C13_NonAsciiStep]_vars
  /\ [](NoNonAsciiInWordsAndNumbers)
  /\ [](pc = "returned" /\ source = <<34, 195, 169, 34>> =>
          result.kind = "Ok" /\ errors = <<>>
            /\ result.tokens[1].type_ = String(<<195, 169>>))

\* a two-byte character inside a comment and again after it: the scan has
\* returned the two diagnostics of the second occurrence only
C13_Witness ==
  /\ pc = "returned"
  /\ source = <<47, 47, 195, 169, 10, 195, 169>>
  /\ result = [kind |-> "Err", errors |->
       << ScannerError(UnexpectedCharacter(195), 2),
          ScannerError(UnexpectedCharacter(169), 2) >>]

----------------------------------------------------------------------------
(* C14: a terminated string literal yields exactly one String token: its   *)
(* payload is the source text strictly between the opening quote and the   *)
(* first `"` after it, verbatim, newlines included; its lexeme includes    *)
(* both quotes; its line is the line of the closing quote, that is the     *)
(* opening line plus the number of newlines inside the literal.            *)
ClosingQuotes(open) == { q \in (open + 1)..Len(source) : source[q] = 34 }

FirstClosingQuote(open) ==
  CHOOSE q \in ClosingQuotes(open) : \A r \in ClosingQuotes(open) : q <= r

NewlinesBetween(a, b) == Cardinality({ i \in (a + 1)..(b - 1) : source[i] = 10 })

C14_StringStep ==
  AtDispatch /\ Dispatched = 34 /\ ClosingQuotes(current + 1) # {} =>
    LET open == current + 1
        close == FirstClosingQuote(open)
        closing_line == line + NewlinesBetween(open, close)
    IN /\ tokens' = Append(tokens,
            [type_ |-> [kind |-> "String",
                        value |-> SubSeq(source, open + 1, close - 1)],
             lexeme |-> SubSeq(source, open, close),
             line |-> closing_line])
       /\ errors' = errors
       /\ line' = closing_line
       /\ current' = close
       /\ pc' = "loop"

C14_TerminatedString ==
  /\ [][C14_StringStep]_vars
  /\ [](pc = "returned"
          /\ source = Bytes(<<"\"", "a", "\n", "b", "\"", " ", "x">>) =>
          /\ result.kind = "Ok"
          /\ Len(result.tokens) = 3
          /\ result.tokens[1] =
               [type_ |-> [kind |-> "String", value |-> <<97, 10, 98>>],
                lexeme |-> <<34, 97, 10, 98, 34>>, line |-> 2])

\* a literal of two lines followed by an identifier has been scanned
C14_Witness ==
  /\ pc = "returned"
  /\ source = Bytes(<<"\"", "a", "\n", "b", "\"", " ", "x">>)
  /\ result.kind = "Ok"
  /\ result.tokens[1].type_ = String(<<97, 10, 98>>)
  /\ result.tokens[1].line = 2
  /\ result.tokens[2].type_.kind = "Identifier"

----------------------------------------------------------------------------
(* C15: tokens are produced in strictly increasing order of source         *)
(* position.  The span of a token is [start, current) of the iteration     *)
(* that emits it; every iteration starts its span at the cursor, where all *)
(* earlier spans have ended, and ends it further on, so the span of a      *)
(* token begins at or after the end of the span of the token before it,    *)
(* spans never overlap and no source character belongs to two tokens.      *)
RECURSIVE LexemeBytes(_)
LexemeBytes(ts) ==
  IF ts = <<>> THEN 0 ELSE Len(Head(ts).lexeme) + LexemeBytes(Tail(ts))

C15_SpanStep ==
  AtDispatch =>
    /\ start' = current
    /\ current' > current
    /\ LexemeBytes(tokens) <= start'
    /\ tokens' # tokens =>
         /\ Len(tokens') = Len(tokens) + 1
         /\ SubSeq(tokens', 1, Len(tokens)) = tokens
         /\ tokens'[Len(tokens')].lexeme = SubSeq(source, start' + 1, current')
         /\ Len(tokens'[Len(tokens')].lexeme) = current' - start'

C15_SpansInSourceOrder ==
  /\ [][C15_SpanStep]_vars
  /\ [](pc \in {"loop", "returned"} =>
          LexemeBytes(SelectSeq(tokens, LAMBDA t : t.type_.kind # "Eof"))
            <= current)

\* `1/2//3` has been scanned: three adjacent tokens, then a comment
C15_Witness ==
  /\ pc = "returned"
  /\ source = Bytes(<<"1", "/", "2", "/", "/", "3">>)
  /\ result.kind = "Ok"
  /\ [i \in 1..3 |-> result.tokens[i].lexeme] = << <<49>>, <<47>>, <<50>> >>

----------------------------------------------------------------------------
(* C16: line-counter invariant.  At the start of every iteration of the    *)
(* main loop and at loop exit, line is 1 plus the number of newlines in    *)
(* the consumed prefix source[0..current], wherever those newlines stood   *)
(* (as whitespace, inside a string literal, at the end of a comment);      *)
(* every token and every diagnostic is stamped with 1 plus the number of   *)
(* newlines before the end of its lexeme; and the line numbers of the      *)
(* token list, and of the diagnostic list, never decrease.                 *)
NonDecreasingLines(items) ==
  \A i \in 1..(Len(items) - 1) : items[i].line <= items[i + 1].line

\* where the text of the iteration ends: the cursor, or the end of the
\* source when the iteration ran into it
EndOfText(n) == IF n <= Len(source) THEN n ELSE Len(source)

C16_StampStep ==
  AtDispatch =>
    /\ tokens' # tokens =>
         tokens'[Len(tokens')].line = LineAfter(EndOfText(current'))
    /\ errors' # errors =>
         errors'[Len(errors')].line = LineAfter(EndOfText(current'))

C16_LineCounter ==
  /\ [][C16_StampStep]_vars
  /\ [](pc \in {"loop", "returned"} => line = LineAfter(current))
  /\ [](NonDecreasingLines(tokens) /\ NonDecreasingLines(errors))
  /\ [](result.kind = "Ok" => NonDecreasingLines(result.tokens))

\* a literal on line 1, a literal holding two newlines and a number
\* behind it: the last three tokens are on line 3
C16_Witness ==
  /\ pc = "returned"
  /\ source = Bytes(<<"\"", "a", "\"", "\"", "\n", "\n", "\"", "1">>)
  /\ line = 3
  /\ result.kind = "Ok"
  /\ [i \in 1..4 |-> result.tokens[i].line] = <<1, 3, 3, 3>>

----------------------------------------------------------------------------
(* C17: cursor bounds.  In every reachable state                           *)
(* 0 <= start <= current <= length of the source, and advance is only      *)
(* called when current < length of the source, so the scanner never reads  *)
(* or slices past the end of the source, whatever the input.               *)
C17_CursorBounds ==
  /\ 0 <= start
  /\ start <= current
  /\ current <= Len(source)
  /\ pc # "panicked"

----------------------------------------------------------------------------
(* C18: every lexeme handed to the floating-point parse by number() has    *)
(* the shape: one or more ASCII digits, optionally followed by exactly one *)
(* `.` and one or more ASCII digits (no sign, no leading or trailing `.`,  *)
(* no exponent); so the parse never fails, whatever the input.             *)
IsNumberShape(lex) ==
  \E k \in 1..Len(lex) :
    /\ \A i \in 1..k : IsDigit(lex[i])
    /\ \/ k = Len(lex)
       \/ /\ k + 2 <= Len(lex)
          /\ lex[k + 1] = 46
          /\ \A i \in (k + 2)..Len(lex) : IsDigit(lex[i])

C18_ParseStep ==
  AtDispatch /\ IsDigit(Dispatched) =>
    /\ pc' = "loop"
    /\ Len(tokens') = Len(tokens) + 1
    /\ tokens'[Len(tokens')].type_.kind = "Number"
    /\ tokens'[Len(tokens')].lexeme = SubSeq(source, current + 1, current')
    /\ IsNumberShape(SubSeq(source, current + 1, current'))
    /\ ParseF32(SubSeq(source, current + 1, current')).ok
    /\ tokens'[Len(tokens')].type_.value =
         ParseF32(SubSeq(source, current + 1, current')).value

C18_ParseNeverFails ==
  /\ [][C18_ParseStep]_vars
  /\ [](\A i \in 1..Len(tokens) :
          tokens[i].type_.kind = "Number" => IsNumberShape(tokens[i].lexeme))

\* `12.50.7` has been scanned: Number 12.50, Dot, Number 7
C18_Witness ==
  /\ pc = "returned"
  /\ source = Bytes(<<"1", "2", ".", "5", "0", ".", "7">>)
  /\ result.kind = "Ok"
  /\ [i \in 1..3 |-> result.tokens[i].lexeme] =
       << Bytes(<<"1", "2", ".", "5", "0">>), <<46>>, <<55>> >>
  /\ result.tokens[1].type_ = Number([mant |-> 125, exp10 |-> 1])

----------------------------------------------------------------------------
(* C19: scanning a space, a carriage return or a horizontal tab at the     *)
(* dispatcher changes only the cursor: the line counter, the token list    *)
(* and the diagnostic list are left unchanged.                             *)
C19_BlankStep ==
  AtDispatch /\ Dispatched \in {32, 13, 9} =>
    /\ line' = line
    /\ tokens' = tokens
    /\ errors' = errors
    /\ current' = current + 1
    /\ start' = current
    /\ pc' = "loop"

C19_BlankChangesOnlyCursor == [][C19_BlankStep]_vars

\* a tab has just been scanned on the second line of `1`, newline, tab
C19_Witness ==
  /\ pc = "loop"
  /\ source = <<49, 10, 9, 13>>
  /\ current = 3
  /\ line = 2
  /\ Len(tokens) = 1
  /\ errors = <<>>

====
